---- MODULE Spec2Model ----
(***************************************************************************)
(* Gift Card Trading API (src/main.py, src/schemas.py): the HTTP handlers  *)
(* over the collections user, giftcard, rate and trade of one document     *)
(* store.                                                                  *)
(*                                                                         *)
(* Representation.                                                         *)
(*  - Python's None is <<>> and a non-null value v of an Optional field is *)
(*    <<v>>; a field that is never null holds its value bare.              *)
(*  - A text whose characters the code looks at (a path id, an email, a    *)
(*    brand) is a sequence of one-character strings; other texts are       *)
(*    strings.                                                             *)
(*  - A float is an integer (only its sign matters to the code).           *)
(*  - A document is a function from its keys to their values, "_id" being  *)
(*    the native ObjectId (the number its 12 bytes spell).                 *)
(*  - A datetime is the number of milliseconds the clock shows (a BSON     *)
(*    datetime keeps milliseconds).                                        *)
(***************************************************************************)
EXTENDS Integers, Sequences, FiniteSets, TLC

\* How many steps (requests handled, clock ticks) a behaviour takes.
MaxSteps == 3

None == <<>>
Some(v) == <<v>>

Range(s) == {s[i] : i \in 1..Len(s)}

---------------------------------------------------------------------------
(* Characters *)

Digits == <<"0", "1", "2", "3", "4", "5", "6", "7", "8", "9">>
UpperCase == <<"A", "B", "C", "D", "E", "F", "G", "H", "I", "J", "K", "L", "M",
               "N", "O", "P", "Q", "R", "S", "T", "U", "V", "W", "X", "Y", "Z">>
LowerCase == <<"a", "b", "c", "d", "e", "f", "g", "h", "i", "j", "k", "l", "m",
               "n", "o", "p", "q", "r", "s", "t", "u", "v", "w", "x", "y", "z">>

IndexOf(s, c) == CHOOSE i \in 1..Len(s) : s[i] = c

\* ord(c): the code point Python's str comparison orders by.
ord(c) ==
    IF c \in Range(Digits) THEN 47 + IndexOf(Digits, c)
    ELSE IF c \in Range(UpperCase) THEN 64 + IndexOf(UpperCase, c)
    ELSE IF c \in Range(LowerCase) THEN 96 + IndexOf(LowerCase, c)
    ELSE IF c = "@" THEN 64
    ELSE 46

\* str.lower() on one character.
lower(c) == IF c \in Range(UpperCase) THEN LowerCase[IndexOf(UpperCase, c)] ELSE c

\* a < b for two str values: lexicographic by code point.
RECURSIVE StrLess(_, _)
StrLess(a, b) ==
    IF Len(b) = 0 THEN FALSE
    ELSE IF Len(a) = 0 THEN TRUE
    ELSE IF ord(Head(a)) # ord(Head(b)) THEN ord(Head(a)) < ord(Head(b))
    ELSE StrLess(Tail(a), Tail(b))

---------------------------------------------------------------------------
(* bson.ObjectId *)

\* An ObjectId is 12 bytes, written as 24 hexadecimal digits.
OidHexLen == 24

IsHex(c) ==
    \/ c \in Range(Digits)
    \/ c \in Range(SubSeq(LowerCase, 1, 6))
    \/ c \in Range(SubSeq(UpperCase, 1, 6))

HexVal(c) ==
    IF c \in Range(Digits) THEN IndexOf(Digits, c) - 1
    ELSE IF c \in Range(LowerCase) THEN 9 + IndexOf(LowerCase, c)
    ELSE 9 + IndexOf(UpperCase, c)

HexChar(d) == IF d < 10 THEN Digits[d + 1] ELSE LowerCase[d - 9]

RECURSIVE HexValue(_)
HexValue(s) ==
    IF Len(s) = 0 THEN 0
    ELSE 16 * HexValue(SubSeq(s, 1, Len(s) - 1)) + HexVal(s[Len(s)])

RECURSIVE ToHex(_, _)
ToHex(n, width) ==
    IF width = 0 THEN << >>
    ELSE Append(ToHex(n \div 16, width - 1), HexChar(n % 16))

\* str(oid): 24 lower-case hexadecimal digits.
ObjectIdStr(oid) == ToHex(oid, OidHexLen)

\* ObjectId(id_str): the id, or None where bson raises InvalidId.
ObjectId(id_str) ==
    IF Len(id_str) = OidHexLen /\ \A i \in 1..Len(id_str) : IsHex(id_str[i])
    THEN Some(HexValue(id_str))
    ELSE None

\* to_object_id: Some(oid), or None where it raises HTTPException(400).
to_object_id(id_str) == ObjectId(id_str)

---------------------------------------------------------------------------
(* Schemas (src/schemas.py) and the request models of src/main.py.  A raw   *)
(* payload is the JSON body: a function from the keys it carries to their   *)
(* values.  For each model, XValid says whether pydantic accepts the body   *)
(* and X is model_dump() of the validated model.                            *)

Get(raw, k, default) == IF k \in DOMAIN raw THEN raw[k] ELSE default

\* Where the "@" of a text is (0: nowhere).
AtSign(s) == IF \E i \in 1..Len(s) : s[i] = "@"
             THEN CHOOSE i \in 1..Len(s) : s[i] = "@" /\ \A j \in 1..(i - 1) : s[j] # "@"
             ELSE 0

\* EmailStr accepts: one "@", a local part, and a dotted domain.
EmailValid(s) ==
    LET at == AtSign(s)
        domain == SubSeq(s, at + 1, Len(s))
    IN /\ at > 1
       /\ "@" \notin Range(domain)
       /\ Len(domain) >= 3
       /\ "." \in Range(domain)
       /\ domain[1] # "." /\ domain[Len(domain)] # "."

\* EmailStr yields the normalized address: the domain in lower case, the
\* local part as written.
EmailStr(s) ==
    LET at == AtSign(s)
    IN [i \in 1..Len(s) |-> IF i > at THEN lower(s[i]) ELSE s[i]]

RateCurrencies == {"USD", "NGN", "GHS", "KES", "GBP", "EUR"}
TradeStatuses == {"pending", "review", "approved", "rejected", "paid"}
CardCurrencies == {"USD", "GBP", "EUR", "CAD", "AUD", "NGN", "GHS"}
PayoutCurrencies == {"USD", "NGN", "GHS", "KES", "GBP", "EUR"}
PayoutMethods == {"bank", "wallet", "mobile_money"}

GiftcardValid(raw) == "brand" \in DOMAIN raw

Giftcard(raw) ==
    [brand |-> raw.brand,
     country |-> Get(raw, "country", None),
     notes |-> Get(raw, "notes", None),
     is_active |-> Get(raw, "is_active", TRUE)]

\* Field(..., gt=0) on buy; Field(None, gt=0) on sell.
RateValid(raw) ==
    /\ {"brand", "buy"} \subseteq DOMAIN raw
    /\ Get(raw, "currency", "USD") \in RateCurrencies
    /\ raw.buy > 0
    /\ LET sell == Get(raw, "sell", None) IN sell = None \/ sell[1] > 0

Rate(raw) ==
    [brand |-> raw.brand,
     country |-> Get(raw, "country", None),
     currency |-> Get(raw, "currency", "USD"),
     buy |-> raw.buy,
     sell |-> Get(raw, "sell", None),
     is_active |-> Get(raw, "is_active", TRUE)]

TradeValid(raw) ==
    /\ {"brand", "card_currency", "amount", "email"} \subseteq DOMAIN raw
    /\ Get(raw, "status", "pending") \in TradeStatuses
    /\ raw.card_currency \in CardCurrencies
    /\ raw.amount > 0
    /\ EmailValid(raw.email)
    /\ Get(raw, "payout_currency", "NGN") \in PayoutCurrencies
    /\ Get(raw, "payout_method", "bank") \in PayoutMethods

Trade(raw) ==
    [status |-> Get(raw, "status", "pending"),
     brand |-> raw.brand,
     country |-> Get(raw, "country", None),
     card_currency |-> raw.card_currency,
     amount |-> raw.amount,
     code |-> Get(raw, "code", None),
     email |-> EmailStr(raw.email),
     phone |-> Get(raw, "phone", None),
     payout_currency |-> Get(raw, "payout_currency", "NGN"),
     payout_method |-> Get(raw, "payout_method", "bank"),
     payout_details |-> Get(raw, "payout_details", None),
     notes |-> Get(raw, "notes", None),
     created_at |-> Get(raw, "created_at", None),
     updated_at |-> Get(raw, "updated_at", None)]

\* The request models of the three PATCH endpoints: every field Optional.
UpdateTradeRequestValid(raw) ==
    LET status == Get(raw, "status", None)
    IN status = None \/ status[1] \in TradeStatuses

UpdateTradeRequest(raw) ==
    [status |-> Get(raw, "status", None),
     notes |-> Get(raw, "notes", None)]

UpdateGiftcardRequestValid(raw) == TRUE

UpdateGiftcardRequest(raw) ==
    [brand |-> Get(raw, "brand", None),
     country |-> Get(raw, "country", None),
     notes |-> Get(raw, "notes", None),
     is_active |-> Get(raw, "is_active", None)]

\* currency is Optional[str], buy and sell are Optional[float]: no Literal,
\* no gt=0.
UpdateRateRequestValid(raw) == TRUE

UpdateRateRequest(raw) ==
    [brand |-> Get(raw, "brand", None),
     country |-> Get(raw, "country", None),
     currency |-> Get(raw, "currency", None),
     buy |-> Get(raw, "buy", None),
     sell |-> Get(raw, "sell", None),
     is_active |-> Get(raw, "is_active", None)]

---------------------------------------------------------------------------
(* State *)

VARIABLES
    db,         \* collection name -> its documents, in insertion order
    nextOid,    \* the ObjectId the store assigns to the next insert
    now,        \* what datetime.utcnow() reads, in milliseconds
    ADMIN_KEY,  \* os.getenv("ADMIN_KEY"): None (unset) or <<text>>
    req,        \* the request handled last
    resp,       \* its response: status, body, and the storage calls it made
    steps       \* steps taken so far

vars == <<db, nextOid, now, ADMIN_KEY, req, resp, steps>>

Collections == {"user", "giftcard", "rate", "trade"}

---------------------------------------------------------------------------
(* The persistence layer: create_document and get_documents of the         *)
(* repository's database module, and pymongo's update_one.                 *)

\* Keys whose value may be null: stored as None or Some(v).
NullableKeys == {"country", "notes", "code", "phone", "payout_details", "sell",
                 "created_at", "updated_at"}

\* A Python value as the document holds it under key k.
Stored(k, v) == IF k \in NullableKeys THEN Some(v) ELSE v

Min(a, b) == IF a < b THEN a ELSE b

\* Exact-match filter: every key of filt is in the document with that value.
Matches(doc, filt) ==
    \A k \in DOMAIN filt : k \in DOMAIN doc /\ doc[k] = Stored(k, filt[k])

\* get_documents(collection_name, filter_dict, limit): up to limit matching
\* documents, in insertion order.
get_documents(docs, filt, limit) ==
    LET found == SelectSeq(docs, LAMBDA d : Matches(d, filt))
    IN SubSeq(found, 1, Min(limit, Len(found)))

\* create_document(collection_name, data): the collection after the insert;
\* the store assigns the id.
create_document(docs, data, oid) ==
    Append(docs, [k \in DOMAIN data \cup {"_id"} |->
                     IF k = "_id" THEN oid ELSE data[k]])

\* {"$set": update} applied to one document.
SetFields(doc, update) ==
    [k \in DOMAIN doc \cup DOMAIN update |->
        IF k \in DOMAIN update THEN Stored(k, update[k]) ELSE doc[k]]

\* update_one({"_id": oid}, {"$set": update}): the collection afterwards and
\* modified_count, which counts the documents the write changed.
update_one(docs, oid, update) ==
    LET hit == {i \in 1..Len(docs) : docs[i]["_id"] = oid}
    IN IF hit = {}
       THEN [docs |-> docs, modified_count |-> 0]
       ELSE LET i == CHOOSE j \in hit : \A h \in hit : j <= h
                new == SetFields(docs[i], update)
            IN [docs |-> [docs EXCEPT ![i] = new],
                modified_count |-> IF new = docs[i] THEN 0 ELSE 1]

---------------------------------------------------------------------------
(* Utils (src/main.py) *)

\* admin_guard, were it to let a request without the header through.
admin_guard_MissingKeyPasses(x_admin_key) ==
    LET required == ADMIN_KEY
    IN /\ required # None /\ required[1] # ""
       /\ x_admin_key # None
       /\ x_admin_key # required

\* TRUE where admin_guard raises HTTPException(401).
admin_guard(x_admin_key) ==
    LET required == ADMIN_KEY
    IN (required # None /\ required[1] # "") /\ x_admin_key # required

\* d["_id"] = str(d.get("_id")) for every document of a result.
StrIds(docs) ==
    [i \in 1..Len(docs) |-> [docs[i] EXCEPT !["_id"] = ObjectIdStr(@)]]

\* What a handler leaves: the store, the next id, and the response.
Outcome(newdb, newOid, status, body, storage) ==
    [db |-> newdb, nextOid |-> newOid,
     resp |-> [status |-> status, body |-> body, storage |-> storage]]

\* A response that leaves the store as it is.
Reply(status, body, storage) == Outcome(db, nextOid, status, body, storage)

\* FastAPI answers a body or parameter its model rejects before the handler
\* runs.
Unprocessable == Reply(422, [detail |-> "validation error"], << >>)

Unauthorized == Reply(401, [detail |-> "Unauthorized"], << >>)

InvalidId == Reply(400, [detail |-> "Invalid id"], << >>)

\* Optional[str] query values: "if brand:" is false for None and for "".
TruthyText(x) == x # None /\ Len(x[1]) > 0
TruthyStr(x) == x # None /\ x[1] # ""

---------------------------------------------------------------------------
(* Public endpoints (src/main.py).  Each handler is an operator giving its  *)
(* Outcome in the current state.  The store is taken to be reachable: the   *)
(* "except Exception -> 500" arms for a failing store are not modelled.     *)

\* limit=200 of get_active_rates and get_brands.
PublicLimit == 200
\* limit=500 of admin_list_brands and admin_list_rates.
AdminLimit == 500

\* get_active_rates, were its filter to start empty.
get_active_rates_NoActiveFilter(brand, country) ==
    LET keys == (IF TruthyText(brand) THEN {"brand"} ELSE {})
                \cup (IF TruthyStr(country) THEN {"country"} ELSE {})
        filt == [k \in keys |-> IF k = "brand" THEN brand[1] ELSE country[1]]
        docs == get_documents(db["rate"], filt, PublicLimit)
    IN Reply(200, [items |-> StrIds(docs)], <<"find">>)

\* GET /api/rates
get_active_rates(brand, country) ==
    LET keys == {"is_active"}
                \cup (IF TruthyText(brand) THEN {"brand"} ELSE {})
                \cup (IF TruthyStr(country) THEN {"country"} ELSE {})
        filt == [k \in keys |-> IF k = "is_active" THEN TRUE
                                ELSE IF k = "brand" THEN brand[1]
                                ELSE country[1]]
        docs == get_documents(db["rate"], filt, PublicLimit)
    IN Reply(200, [items |-> StrIds(docs)], <<"find">>)

\* POST /api/trades
create_trade(payload) ==
    IF ~TradeValid(payload) THEN Unprocessable
    ELSE Outcome([db EXCEPT !["trade"] = create_document(@, Trade(payload), nextOid)],
                 nextOid + 1, 200,
                 [id |-> ObjectIdStr(nextOid), status |-> "received"],
                 <<"insert_one">>)

\* GET /api/trades
list_trades(email, status, limit) ==
    LET keys == (IF TruthyText(email) THEN {"email"} ELSE {})
                \cup (IF TruthyStr(status) THEN {"status"} ELSE {})
        filt == [k \in keys |-> IF k = "email" THEN email[1] ELSE status[1]]
        docs == get_documents(db["trade"], filt, limit)
    IN Reply(200, [items |-> StrIds(docs)], <<"find">>)

\* sorted(S) for a set of str.
RECURSIVE sorted(_)
sorted(S) ==
    IF S = {} THEN << >>
    ELSE LET m == CHOOSE x \in S : \A y \in S \ {x} : StrLess(x, y)
         IN <<m>> \o sorted(S \ {m})

\* get_brands, were it to build a list in place of sorted({...}).
get_brands_Unsorted ==
    LET docs == get_documents(db["giftcard"], [is_active |-> TRUE], PublicLimit)
        named == SelectSeq(docs, LAMBDA d : Len(d.brand) > 0)
    IN Reply(200, [items |-> [i \in 1..Len(named) |-> named[i].brand]], <<"find">>)

\* GET /api/brands
get_brands ==
    LET docs == get_documents(db["giftcard"], [is_active |-> TRUE], PublicLimit)
        brands == sorted({docs[i].brand : i \in {j \in 1..Len(docs) : Len(docs[j].brand) > 0}})
    IN Reply(200, [items |-> brands], <<"find">>)

---------------------------------------------------------------------------
(* Admin endpoints (src/main.py).  FastAPI validates the body against the   *)
(* handler's request model first; the handler's first statement is          *)
(* admin_guard.                                                             *)

\* GET /api/admin/summary.  "... if db else 0" asks the Database object for
\* its truth value: db_bool is what that gives, TRUE or, where the driver
\* does not implement it, "NotImplementedError" (caught: 500).
admin_summary(x_admin_key, db_bool) ==
    IF admin_guard(x_admin_key) THEN Unauthorized
    ELSE IF db_bool # "True" THEN Reply(500, [detail |-> db_bool], << >>)
    ELSE Reply(200,
               [counts |->
                  [users |-> Len(db["user"]),
                   giftcards |-> Len(db["giftcard"]),
                   rates |-> Len(db["rate"]),
                   trades |-> Len(db["trade"]),
                   pending_trades |->
                      Len(SelectSeq(db["trade"],
                                    LAMBDA d : Matches(d, [status |-> "pending"])))]],
               <<"count_documents", "count_documents", "count_documents",
                 "count_documents", "count_documents">>)

\* GET /api/admin/trades
admin_list_trades(status, limit, x_admin_key) ==
    IF admin_guard(x_admin_key) THEN Unauthorized
    ELSE LET filt == IF TruthyStr(status) THEN [status |-> status[1]] ELSE << >>
             docs == get_documents(db["trade"], filt, limit)
         IN Reply(200, [items |-> StrIds(docs)], <<"find">>)

\* PartialUpdate, were it to lack "if not update: return".
PartialUpdate_NoEarlyReturn(collection, id_str, dump) ==
    LET keys == {k \in DOMAIN dump : dump[k] # None}
        update == [k \in keys \cup {"updated_at"} |->
                      IF k = "updated_at" THEN now ELSE dump[k][1]]
        oid == to_object_id(id_str)
    IN IF oid = None THEN InvalidId
       ELSE LET result == update_one(db[collection], oid[1], update)
            IN Outcome([db EXCEPT ![collection] = result.docs], nextOid, 200,
                       [updated |-> result.modified_count], <<"update_one">>)

\* PartialUpdate, were it to answer with matched_count.
PartialUpdate_MatchedCount(collection, id_str, dump) ==
    LET keys == {k \in DOMAIN dump : dump[k] # None}
        update == [k \in keys \cup {"updated_at"} |->
                      IF k = "updated_at" THEN now ELSE dump[k][1]]
        oid == to_object_id(id_str)
    IN IF keys = {} THEN Reply(200, [updated |-> 0], << >>)
       ELSE IF oid = None THEN InvalidId
       ELSE LET result == update_one(db[collection], oid[1], update)
                matched == IF \E i \in 1..Len(db[collection]) :
                                   db[collection][i]["_id"] = oid[1]
                           THEN 1 ELSE 0
            IN Outcome([db EXCEPT ![collection] = result.docs], nextOid, 200,
                       [updated |-> matched], <<"update_one">>)

\* PartialUpdate, were its filter to match any document of the collection.
PartialUpdate_AnyDocument(collection, id_str, dump) ==
    LET keys == {k \in DOMAIN dump : dump[k] # None}
        update == [k \in keys \cup {"updated_at"} |->
                      IF k = "updated_at" THEN now ELSE dump[k][1]]
        oid == to_object_id(id_str)
        docs == db[collection]
    IN IF keys = {} THEN Reply(200, [updated |-> 0], << >>)
       ELSE IF oid = None THEN InvalidId
       ELSE LET result == IF docs = << >> THEN update_one(docs, oid[1], update)
                          ELSE update_one(docs, docs[1]["_id"], update)
            IN Outcome([db EXCEPT ![collection] = result.docs], nextOid, 200,
                       [updated |-> result.modified_count], <<"update_one">>)

\* The body the three PATCH handlers share after the guard: the non-null
\* fields, the early return, updated_at, to_object_id, update_one.
PartialUpdate(collection, id_str, dump) ==
    LET keys == {k \in DOMAIN dump : dump[k] # None}
        update == [k \in keys \cup {"updated_at"} |->
                      IF k = "updated_at" THEN now ELSE dump[k][1]]
        oid == to_object_id(id_str)
    IN IF keys = {} THEN Reply(200, [updated |-> 0], << >>)
       ELSE IF oid = None THEN InvalidId
       ELSE LET result == update_one(db[collection], oid[1], update)
            IN Outcome([db EXCEPT ![collection] = result.docs], nextOid, 200,
                       [updated |-> result.modified_count], <<"update_one">>)

\* PATCH /api/admin/trades/{trade_id}
admin_update_trade(trade_id, payload, x_admin_key) ==
    IF ~UpdateTradeRequestValid(payload) THEN Unprocessable
    ELSE IF admin_guard(x_admin_key) THEN Unauthorized
    ELSE PartialUpdate("trade", trade_id, UpdateTradeRequest(payload))

\* POST /api/admin/brands
admin_create_brand(payload, x_admin_key) ==
    IF ~GiftcardValid(payload) THEN Unprocessable
    ELSE IF admin_guard(x_admin_key) THEN Unauthorized
    ELSE Outcome([db EXCEPT !["giftcard"] =
                      create_document(@, Giftcard(payload), nextOid)],
                 nextOid + 1, 200, [id |-> ObjectIdStr(nextOid)], <<"insert_one">>)

\* PATCH /api/admin/brands/{brand_id}
admin_update_brand(brand_id, payload, x_admin_key) ==
    IF ~UpdateGiftcardRequestValid(payload) THEN Unprocessable
    ELSE IF admin_guard(x_admin_key) THEN Unauthorized
    ELSE PartialUpdate("giftcard", brand_id, UpdateGiftcardRequest(payload))

\* GET /api/admin/brands
admin_list_brands(include_inactive, x_admin_key) ==
    IF admin_guard(x_admin_key) THEN Unauthorized
    ELSE LET filt == IF include_inactive THEN << >> ELSE [is_active |-> TRUE]
             docs == get_documents(db["giftcard"], filt, AdminLimit)
         IN Reply(200, [items |-> StrIds(docs)], <<"find">>)

\* POST /api/admin/rates
admin_create_rate(payload, x_admin_key) ==
    IF ~RateValid(payload) THEN Unprocessable
    ELSE IF admin_guard(x_admin_key) THEN Unauthorized
    ELSE Outcome([db EXCEPT !["rate"] = create_document(@, Rate(payload), nextOid)],
                 nextOid + 1, 200, [id |-> ObjectIdStr(nextOid)], <<"insert_one">>)

\* PATCH /api/admin/rates/{rate_id}
admin_update_rate(rate_id, payload, x_admin_key) ==
    IF ~UpdateRateRequestValid(payload) THEN Unprocessable
    ELSE IF admin_guard(x_admin_key) THEN Unauthorized
    ELSE PartialUpdate("rate", rate_id, UpdateRateRequest(payload))

\* GET /api/admin/rates
admin_list_rates(brand, include_inactive, x_admin_key) ==
    IF admin_guard(x_admin_key) THEN Unauthorized
    ELSE LET keys == (IF include_inactive THEN {} ELSE {"is_active"})
                     \cup (IF TruthyText(brand) THEN {"brand"} ELSE {})
             filt == [k \in keys |-> IF k = "is_active" THEN TRUE ELSE brand[1]]
             docs == get_documents(db["rate"], filt, AdminLimit)
         IN Reply(200, [items |-> StrIds(docs)], <<"find">>)

---------------------------------------------------------------------------
(* The requests explored *)

Secret == "s3cret"
\* ADMIN_KEY: unset, set to the empty text, or set to a secret.
AdminKeyEnv == {None, Some(""), Some(Secret)}
\* X-Admin-Key is missing (None), the secret, or "wrong": see Keyed.

BrandTexts == {<<"a">>, <<"B">>, << >>}

MailLower == <<"a", "@", "b", ".", "c">>
MailUpper == <<"a", "@", "B", ".", "c">>

\* Path ids: the first two the store assigns, and two malformed ones (too
\* short; 24 characters, one of them no hexadecimal digit).
PathIds ==
    {ObjectIdStr(n) : n \in {1, 2}}
    \cup {<<"a", "b", "c">>, [i \in 1..OidHexLen |-> IF i = 1 THEN "g" ELSE "0"]}

TradeBase == [brand |-> <<"a">>, card_currency |-> "USD", amount |-> 50,
              email |-> MailLower]

TradePayloads ==
    {TradeBase,
     [TradeBase EXCEPT !.email = MailUpper],
     [TradeBase EXCEPT !.amount = 0],
     [TradeBase EXCEPT !.card_currency = "XXX"],
     [brand |-> <<"a">>, card_currency |-> "USD", amount |-> 50,
      email |-> MailLower, status |-> "bogus"]}

UpdateTradePayloads ==
    {<< >>,
     [status |-> None, notes |-> None],
     [status |-> Some("approved")],
     [status |-> Some("bogus")]}

GiftcardPayloads ==
    {[brand |-> b] : b \in BrandTexts}
    \cup {[notes |-> Some("no brand")]}

UpdateGiftcardPayloads ==
    {<< >>,
     [is_active |-> Some(FALSE)],
     [brand |-> Some(<< >>)],
     [brand |-> Some(<<"a">>), notes |-> Some("renamed")]}

RateBase == [brand |-> <<"a">>, buy |-> 5]

RatePayloads ==
    {RateBase,
     [brand |-> <<"B">>, country |-> Some("US"), currency |-> "NGN", buy |-> 7,
      sell |-> Some(9)],
     [RateBase EXCEPT !.buy = 0],
     [brand |-> <<"a">>, buy |-> 5, sell |-> Some(-1)],
     [brand |-> <<"a">>, buy |-> 5, currency |-> "XXX"]}

UpdateRatePayloads ==
    {<< >>,
     [is_active |-> Some(FALSE)],
     [is_active |-> Some(TRUE)],
     [buy |-> Some(-1)],
     [currency |-> Some("XXX")]}

\* GET /api/rates: <<brand, country>>.
RateQueries ==
    {<<None, None>>, <<Some(<< >>), None>>, <<Some(<<"a">>), None>>,
     <<None, Some("")>>, <<Some(<<"B">>), Some("US")>>}
\* GET /api/admin/rates: <<brand, include_inactive>>.
AdminRateQueries == {<<None, TRUE>>, <<Some(<<"a">>), FALSE>>}
\* GET /api/trades and GET /api/admin/trades: <<email, status, limit>>, the
\* limit being the default or one a caller chose.
DefaultLimit == 200
TradeQueries ==
    {<<None, None, DefaultLimit>>,
     <<Some(MailLower), None, DefaultLimit>>,
     <<Some(MailUpper), None, DefaultLimit>>,
     <<None, Some("approved"), DefaultLimit>>,
     <<None, None, 1>>}
AdminTradeQueries == {<<None, DefaultLimit>>, <<Some("approved"), 1>>}

\* An admin request is its inputs and its X-Admin-Key.  Every input is sent
\* with the secret; those of unkeyed are also sent with no key and with a
\* wrong one.
Keyed(inputs, unkeyed) ==
    {<<x, Some(Secret)>> : x \in inputs}
    \cup {<<x, k>> : x \in unkeyed, k \in {None, Some("wrong")}}

\* The PATCH requests on one collection: <<<<id, payload>>, key>>.
UpdateRequests(payloads) ==
    Keyed(PathIds \X payloads,
          {x \in PathIds \X payloads : x[1] = ObjectIdStr(1)})

---------------------------------------------------------------------------
(* Specification *)

Init ==
    /\ db = [c \in Collections |-> << >>]
    /\ nextOid = 1
    /\ now = 0
    /\ ADMIN_KEY \in AdminKeyEnv
    /\ req = [op |-> "none"]
    /\ resp = [status |-> 0, body |-> << >>, storage |-> << >>]
    /\ steps = 0

\* One request: the handler's outcome becomes the state.
Handle(request, out) ==
    /\ steps < MaxSteps
    /\ db' = out.db
    /\ nextOid' = out.nextOid
    /\ resp' = out.resp
    /\ req' = request
    /\ steps' = steps + 1
    /\ UNCHANGED <<now, ADMIN_KEY>>

\* The clock moves on between two requests, or does not.
Tick ==
    /\ steps < MaxSteps
    /\ now' = now + 1
    /\ steps' = steps + 1
    /\ UNCHANGED <<db, nextOid, ADMIN_KEY, req, resp>>

GetActiveRates ==
    \E q \in RateQueries :
        Handle([op |-> "get_active_rates", brand |-> q[1], country |-> q[2]],
               get_active_rates(q[1], q[2]))

CreateTrade ==
    \E payload \in TradePayloads :
        Handle([op |-> "create_trade", payload |-> payload], create_trade(payload))

ListTrades ==
    \E q \in TradeQueries :
        Handle([op |-> "list_trades", email |-> q[1], status |-> q[2],
                limit |-> q[3]],
               list_trades(q[1], q[2], q[3]))

GetBrands == Handle([op |-> "get_brands"], get_brands)

AdminSummary ==
    \E r \in Keyed({"True", "NotImplementedError"}, {"True"}) :
        Handle([op |-> "admin_summary", key |-> r[2]],
               admin_summary(r[2], r[1]))

AdminListTrades ==
    \E r \in Keyed(AdminTradeQueries, {<<None, DefaultLimit>>}) :
        Handle([op |-> "admin_list_trades", status |-> r[1][1], limit |-> r[1][2],
                key |-> r[2]],
               admin_list_trades(r[1][1], r[1][2], r[2]))

AdminUpdateTrade ==
    \E r \in UpdateRequests(UpdateTradePayloads) :
        Handle([op |-> "admin_update_trade", id |-> r[1][1], payload |-> r[1][2],
                key |-> r[2]],
               admin_update_trade(r[1][1], r[1][2], r[2]))

AdminCreateBrand ==
    \E r \in Keyed(GiftcardPayloads, {[brand |-> <<"a">>], [notes |-> Some("no brand")]}) :
        Handle([op |-> "admin_create_brand", payload |-> r[1], key |-> r[2]],
               admin_create_brand(r[1], r[2]))

AdminUpdateBrand ==
    \E r \in UpdateRequests(UpdateGiftcardPayloads) :
        Handle([op |-> "admin_update_brand", id |-> r[1][1], payload |-> r[1][2],
                key |-> r[2]],
               admin_update_brand(r[1][1], r[1][2], r[2]))

AdminListBrands ==
    \E r \in Keyed(BOOLEAN, {TRUE}) :
        Handle([op |-> "admin_list_brands", include_inactive |-> r[1],
                key |-> r[2]],
               admin_list_brands(r[1], r[2]))

AdminCreateRate ==
    \E r \in Keyed(RatePayloads, {RateBase, [RateBase EXCEPT !.buy = 0]}) :
        Handle([op |-> "admin_create_rate", payload |-> r[1], key |-> r[2]],
               admin_create_rate(r[1], r[2]))

AdminUpdateRate ==
    \E r \in UpdateRequests(UpdateRatePayloads) :
        Handle([op |-> "admin_update_rate", id |-> r[1][1], payload |-> r[1][2],
                key |-> r[2]],
               admin_update_rate(r[1][1], r[1][2], r[2]))

AdminListRates ==
    \E r \in Keyed(AdminRateQueries, {<<None, TRUE>>}) :
        Handle([op |-> "admin_list_rates", brand |-> r[1][1],
                include_inactive |-> r[1][2], key |-> r[2]],
               admin_list_rates(r[1][1], r[1][2], r[2]))

Next ==
    \/ Tick
    \/ GetActiveRates
    \/ CreateTrade
    \/ ListTrades
    \/ GetBrands
    \/ AdminSummary
    \/ AdminListTrades
    \/ AdminUpdateTrade
    \/ AdminCreateBrand
    \/ AdminUpdateBrand
    \/ AdminListBrands
    \/ AdminCreateRate
    \/ AdminUpdateRate
    \/ AdminListRates

Spec == Init /\ [][Next]_vars

\* The rate endpoints on a store that already holds one Rate more than a
\* public listing returns: the state after that many POST /api/admin/rates
\* of the same body, which are counted as one step.
InitManyRates ==
    /\ db = [c \in Collections |->
                IF c = "rate"
                THEN [n \in 1..(PublicLimit + 1) |->
                         create_document(<< >>, Rate(RateBase), n)[1]]
                ELSE << >>]
    /\ nextOid = PublicLimit + 2
    /\ now = 0
    /\ ADMIN_KEY \in AdminKeyEnv
    /\ req = [op |-> "none"]
    /\ resp = [status |-> 0, body |-> << >>, storage |-> << >>]
    /\ steps = 1

NextRates ==
    \/ Tick
    \/ GetActiveRates
    \/ AdminCreateRate
    \/ AdminUpdateRate
    \/ AdminListRates

SpecManyRates == InitManyRates /\ [][NextRates]_vars

---------------------------------------------------------------------------
(* Vocabulary of the properties *)

AdminOps ==
    {"admin_summary", "admin_list_trades", "admin_update_trade",
     "admin_create_brand", "admin_update_brand", "admin_list_brands",
     "admin_create_rate", "admin_update_rate", "admin_list_rates"}

PatchOps == {"admin_update_trade", "admin_update_brand", "admin_update_rate"}

\* The collection a PATCH endpoint writes.
Target(op) ==
    IF op = "admin_update_trade" THEN "trade"
    ELSE IF op = "admin_update_brand" THEN "giftcard"
    ELSE "rate"

\* ADMIN_KEY is set to a non-empty value.
KeySet == ADMIN_KEY # None /\ ADMIN_KEY[1] # ""

\* The request's X-Admin-Key is missing or differs from a set ADMIN_KEY.
KeyRefused(r) == KeySet /\ r.key # ADMIN_KEY

\* The request's body is one its endpoint's request model accepts.
BodyAccepted(r) ==
    IF r.op = "admin_update_trade" THEN UpdateTradeRequestValid(r.payload)
    ELSE IF r.op = "admin_create_brand" THEN GiftcardValid(r.payload)
    ELSE IF r.op = "admin_create_rate" THEN RateValid(r.payload)
    ELSE IF r.op = "create_trade" THEN TradeValid(r.payload)
    ELSE TRUE

\* The body has no non-null field.
AllNull(payload) == \A k \in DOMAIN payload : payload[k] = None

\* The fields of the body that are not null.
NonNull(payload) == {k \in DOMAIN payload : payload[k] # None}

\* This step handled a request (the clock did not move).
RequestStep == steps' = steps + 1 /\ now' = now

\* The documents of a collection with the id a path text spells.
WithId(docs, id_str) ==
    {i \in 1..Len(docs) : ObjectId(id_str) = Some(docs[i]["_id"])}

---------------------------------------------------------------------------
(* C1 *)

---------------------------------------------------------------------------
(* C2 *)

\* C2: in every reachable state every stored monetary field that is present
\* is strictly positive: Rate.buy > 0, Rate.sell > 0 when not null,
\* Trade.amount > 0.
C2_MoneyPositive ==
    /\ \A i \in 1..Len(db["rate"]) :
          LET d == db["rate"][i]
          IN d.buy > 0 /\ (d.sell = None \/ d.sell[1] > 0)
    /\ \A i \in 1..Len(db["trade"]) : db["trade"][i].amount > 0

---------------------------------------------------------------------------
(* C3 *)

\* C3: in every reachable state each enum field of every stored record
\* holds one of its declared literal values (Trade.status,
\* Trade.card_currency, Trade.payout_currency, Trade.payout_method,
\* Rate.currency).
C3_EnumsDeclared ==
    /\ \A i \in 1..Len(db["rate"]) : db["rate"][i].currency \in RateCurrencies
    /\ \A i \in 1..Len(db["trade"]) :
          LET d == db["trade"][i]
          IN /\ d.status \in TradeStatuses
             /\ d.card_currency \in CardCurrencies
             /\ d.payout_currency \in PayoutCurrencies
             /\ d.payout_method \in PayoutMethods

---------------------------------------------------------------------------
(* C4 *)

\* C4, as stated: on each of the three admin PATCH endpoints a request
\* whose body has no non-null field is answered {"updated": 0} and changes
\* no field of any record in any collection.
C4_AsStated ==
    [][(RequestStep /\ req'.op \in PatchOps /\ AllNull(req'.payload)) =>
          /\ resp'.status = 200
          /\ resp'.body.updated = 0
          /\ db' = db]_vars

\* C4, amended: such a request changes no field of any record in any
\* collection, and is answered {"updated": 0} when it passes the admin guard
\* (401 when the guard refuses it).
C4_EmptyPatchNoOp ==
    [][(RequestStep /\ req'.op \in PatchOps /\ AllNull(req'.payload)) =>
          /\ db' = db
          /\ IF KeyRefused(req')
             THEN resp'.status = 401
             ELSE resp'.status = 200 /\ resp'.body.updated = 0]_vars

\* An all-null PATCH of an existing record passed the guard and was answered
\* {"updated": 0}.
C4_Witness ==
    /\ req.op \in PatchOps
    /\ req.payload # << >>
    /\ AllNull(req.payload)
    /\ WithId(db[Target(req.op)], req.id) # {}
    /\ resp.status = 200
    /\ resp.body.updated = 0

---------------------------------------------------------------------------
(* C5 *)

\* C5: on each admin PATCH endpoint a request that passes the admin guard
\* and whose path id is malformed is answered 400, whatever its body.
C5_MalformedIdRejected ==
    (/\ req.op \in PatchOps
     /\ BodyAccepted(req)
     /\ ~KeyRefused(req)
     /\ ObjectId(req.id) = None)
    => resp.status = 400

---------------------------------------------------------------------------
(* C6 *)

\* A PATCH request that reaches update_one: it passes validation and the
\* guard, its id is well-formed and its body has a non-null field.
Updating(r) ==
    /\ r.op \in PatchOps
    /\ BodyAccepted(r)
    /\ ~KeyRefused(r)
    /\ ObjectId(r.id) # None
    /\ ~AllNull(r.payload)

\* The write of r's non-null fields and of updated_at changes the document.
Changes(doc, r) ==
    \/ \E k \in NonNull(r.payload) : doc[k] # Stored(k, r.payload[k][1])
    \/ "updated_at" \notin DOMAIN doc
    \/ doc["updated_at"] # Some(now)

\* C6, as stated: such a request is answered {"updated": 1} when a record
\* with that id exists in the target collection and {"updated": 0} when none
\* does, the latter changing no record.
C6_AsStated ==
    [][(RequestStep /\ Updating(req')) =>
          /\ resp'.status = 200
          /\ IF WithId(db[Target(req'.op)], req'.id) # {}
             THEN resp'.body.updated = 1
             ELSE resp'.body.updated = 0 /\ db' = db]_vars

\* C6, amended: such a request is answered {"updated": 1} when a record with
\* that id exists and the write changes it (a field of the body, or
\* updated_at, gets a value other than the stored one), and {"updated": 0},
\* a success that changes no record, when none exists or when the write
\* changes nothing (the same body again within the same clock millisecond).
C6_UpdatedCount ==
    [][(RequestStep /\ Updating(req')) =>
          LET docs == db[Target(req'.op)]
              hit == WithId(docs, req'.id)
          IN /\ resp'.status = 200
             /\ IF hit # {} /\ \E i \in hit : Changes(docs[i], req')
                THEN resp'.body.updated = 1
                ELSE resp'.body.updated = 0 /\ db' = db]_vars

\* A PATCH of an existing record was answered {"updated": 1}.
C6_Witness ==
    /\ Updating(req)
    /\ WithId(db[Target(req.op)], req.id) # {}
    /\ resp.status = 200
    /\ resp.body.updated = 1

---------------------------------------------------------------------------
(* C7 *)

\* C7: after POST /api/trades with a valid payload the response carries a
\* non-empty id, and GET /api/trades filtered by the payload's email returns
\* a record with that id.
C7_CreatedTradeListed ==
    (req.op = "create_trade" /\ TradeValid(req.payload)) =>
        /\ resp.status = 200
        /\ Len(resp.body.id) > 0
        /\ LET items == list_trades(Some(req.payload.email), None,
                                    DefaultLimit).resp.body.items
           IN \E i \in 1..Len(items) : items[i]["_id"] = resp.body.id

---------------------------------------------------------------------------
(* C8 *)

\* C8: in every reachable state the items of GET /api/brands hold no
\* duplicate and no empty entry, ascend in lexicographic order, and each is
\* the brand of a Giftcard record with is_active = true.
C8_BrandsListing ==
    LET items == get_brands.resp.body.items
    IN /\ \A i \in 1..Len(items) : Len(items[i]) > 0
       /\ \A i, j \in 1..Len(items) : i < j => StrLess(items[i], items[j])
       /\ \A i \in 1..Len(items) :
             \E n \in 1..Len(db["giftcard"]) :
                 /\ db["giftcard"][n].brand = items[i]
                 /\ db["giftcard"][n].is_active = TRUE
       /\ req.op = "get_brands" => resp.status = 200 /\ resp.body.items = items

\* GET /api/brands answered two brands, the store holding them in the other
\* order.
C8_Witness ==
    /\ req.op = "get_brands"
    /\ Len(resp.body.items) = 2
    /\ Len(db["giftcard"]) = 2
    /\ db["giftcard"][1].brand = resp.body.items[2]

---------------------------------------------------------------------------
(* C9 *)

\* item is a stored Rate with is_active = true, its _id being the 24-digit
\* text of the stored id.
ActiveRateItem(item) ==
    /\ Len(item["_id"]) = OidHexLen
    /\ LET oid == ObjectId(item["_id"])
       IN /\ oid # None
          /\ \E n \in 1..Len(db["rate"]) :
                LET d == db["rate"][n]
                IN /\ d["_id"] = oid[1]
                   /\ d.is_active = TRUE
                   /\ item["_id"] = ObjectIdStr(d["_id"])
                   /\ DOMAIN item = DOMAIN d
                   /\ \A k \in DOMAIN d \ {"_id"} : item[k] = d[k]

\* What GET /api/rates has just answered: only Rate records with
\* is_active = true, at most 200, and only those of the brand and of the
\* country the query gives (a value that is not empty).
C9_OnlyActiveListed ==
    req.op = "get_active_rates" =>
        /\ resp.status = 200
        /\ LET items == resp.body.items
           IN /\ Len(items) <= 200
              /\ \A i \in 1..Len(items) :
                    /\ ActiveRateItem(items[i])
                    /\ TruthyText(req.brand) => items[i].brand = req.brand[1]
                    /\ TruthyStr(req.country) =>
                          items[i].country = Some(req.country[1])

\* C9: GET /api/rates returns only Rate records with is_active = true, at
\* most 200 of them, each with _id as a string, and, when a (non-empty) brand
\* or country is given, only records with that brand or country; a PATCH
\* /api/admin/rates/{id} with is_active = false leaves the Rate inactive, and
\* an inactive Rate stays so (and so stays out of every listing) until a
\* PATCH of that id with is_active = true.
C9_ActiveRates ==
    /\ []C9_OnlyActiveListed
    /\ [][/\ (/\ RequestStep
               /\ req'.op = "admin_update_rate"
               /\ Updating(req')
               /\ "is_active" \in NonNull(req'.payload)
               /\ req'.payload.is_active = Some(FALSE))
              => \A n \in WithId(db["rate"], req'.id) :
                    db'["rate"][n].is_active = FALSE
          /\ \A n \in 1..Len(db["rate"]) :
                (db["rate"][n].is_active = FALSE /\ db'["rate"][n].is_active = TRUE)
                => /\ req'.op = "admin_update_rate"
                   /\ Updating(req')
                   /\ "is_active" \in NonNull(req'.payload)
                   /\ req'.payload.is_active = Some(TRUE)
                   /\ n \in WithId(db["rate"], req'.id)]_vars

\* The first of 201 active Rates having been deactivated, GET /api/rates
\* answered 200 Rates, the second stored one first.
C9_Witness ==
    /\ req.op = "get_active_rates"
    /\ Len(db["rate"]) > PublicLimit
    /\ db["rate"][1].is_active = FALSE
    /\ Len(resp.body.items) = PublicLimit
    /\ resp.body.items[1]["_id"] = ObjectIdStr(db["rate"][2]["_id"])

---------------------------------------------------------------------------
(* C10 *)

\* C10: no step removes a record or changes a record's id; a record changes
\* only by a successful PATCH of its collection with its id, and then only
\* in updated_at and in the fields that are non-null in the body; such a
\* PATCH gives those fields the body's values and updated_at the time of the
\* request.
C10_PatchFrame ==
    [][/\ \A c \in Collections :
             /\ Len(db'[c]) >= Len(db[c])
             /\ \A n \in 1..Len(db[c]) :
                   LET old == db[c][n]
                       new == db'[c][n]
                   IN /\ new["_id"] = old["_id"]
                      /\ DOMAIN old \subseteq DOMAIN new
                      /\ new # old =>
                            /\ Updating(req')
                            /\ Target(req'.op) = c
                            /\ n \in WithId(db[c], req'.id)
                            /\ resp'.status = 200
                            /\ resp'.body.updated = 1
                            /\ \A k \in DOMAIN new :
                                  (k \notin DOMAIN old \/ new[k] # old[k]) =>
                                      k = "updated_at" \/ k \in NonNull(req'.payload)
       /\ (/\ RequestStep
           /\ Updating(req')
           /\ resp'.status = 200
           /\ resp'.body.updated = 1)
          => \E n \in WithId(db[Target(req'.op)], req'.id) :
                LET new == db'[Target(req'.op)][n]
                IN /\ \A k \in NonNull(req'.payload) :
                         new[k] = Stored(k, req'.payload[k][1])
                   /\ new["updated_at"] = Some(now)]_vars

\* A PATCH changed one of the two records of its collection.
C10_Witness ==
    /\ Updating(req)
    /\ resp.status = 200
    /\ resp.body.updated = 1
    /\ Len(db[Target(req.op)]) = 2
    /\ WithId(db[Target(req.op)], req.id) = {2}

====
